---- MODULE Spec2Model ----
\* Field-aware factorization machine kernel (src/ffm-model.cpp): the model
\* state built by ffm_model::ffm_model, the forward pass ffm_model::predict
\* and the AdaGrad step ffm_model::update, with the dropout-mask protocol and
\* the field restriction they share.
EXTENDS Integers, Sequences, FiniteSets, TLC

\* ------------------------------------------------------------------------
\* ffm_float: single-precision values, modelled as fixed-point integers with
\* Scale units per 1.0, extended by the IEEE specials +inf, -inf and NaN.
\* A finite result at or beyond FMax overflows to an infinity.
\* ------------------------------------------------------------------------
Scale == 256
FMax == 32768

PInf == FMax
NInf == 0 - FMax
NaN == FMax + 1

IsNaN(x) == x = NaN
IsInf(x) == x = PInf \/ x = NInf
IsFinite(x) == x > NInf /\ x < PInf

Abs(x) == IF x < 0 THEN 0 - x ELSE x
Sgn(x) == IF x < 0 THEN 0 - 1 ELSE IF x > 0 THEN 1 ELSE 0

\* Integer division rounding toward zero (b # 0).
TDiv(a, b) == Sgn(a) * Sgn(b) * (Abs(a) \div Abs(b))

\* A finite result, overflowing to an infinity outside the range.
Rnd(x) == IF x >= FMax THEN PInf ELSE IF x <= 0 - FMax THEN NInf ELSE x

FNeg(x) == IF IsNaN(x) THEN NaN ELSE 0 - x

FAdd(x, y) ==
    IF IsNaN(x) \/ IsNaN(y) THEN NaN
    ELSE IF IsInf(x) THEN (IF IsInf(y) /\ y # x THEN NaN ELSE x)
    ELSE IF IsInf(y) THEN y
    ELSE Rnd(x + y)

FSub(x, y) == FAdd(x, FNeg(y))

FMul(x, y) ==
    IF IsNaN(x) \/ IsNaN(y) THEN NaN
    ELSE IF IsInf(x) \/ IsInf(y)
         THEN (IF x = 0 \/ y = 0 THEN NaN
               ELSE IF Sgn(x) * Sgn(y) > 0 THEN PInf ELSE NInf)
    ELSE Rnd(TDiv(x * y, Scale))

FDiv(x, y) ==
    IF IsNaN(x) \/ IsNaN(y) THEN NaN
    ELSE IF IsInf(x) THEN (IF IsInf(y) THEN NaN
                           ELSE IF Sgn(x) * (IF y < 0 THEN 0 - 1 ELSE 1) > 0
                                THEN PInf ELSE NInf)
    ELSE IF IsInf(y) THEN 0
    ELSE IF y = 0 THEN (IF x = 0 THEN NaN ELSE IF x > 0 THEN PInf ELSE NInf)
    ELSE Rnd(TDiv(x * Scale, y))

\* floor(sqrt(n)) for an integer n >= 0, by bisection on [lo, hi).
RECURSIVE Bisect(_, _, _)
Bisect(n, lo, hi) ==
    IF hi - lo <= 1 THEN lo
    ELSE LET mid == (lo + hi) \div 2
         IN  IF mid * mid <= n THEN Bisect(n, mid, hi) ELSE Bisect(n, lo, mid)

ISqrt(n) == Bisect(n, 0, 4096)

FSqrt(x) ==
    IF IsNaN(x) \/ x < 0 THEN NaN
    ELSE IF x = PInf THEN PInf
    ELSE ISqrt(x * Scale)

\* _mm256_rsqrt_ps, one lane: the reciprocal square root.
FRsqrt(x) ==
    IF IsNaN(x) \/ x < 0 THEN NaN
    ELSE IF x = PInf THEN 0
    ELSE IF x = 0 THEN PInf
    ELSE Rnd(TDiv(Scale * Scale, ISqrt(x * Scale)))

\* The float of an element count (end - start).
FOfInt(n) == Rnd(n * Scale)

\* ------------------------------------------------------------------------
\* Compile-time constants
\* ------------------------------------------------------------------------
align_bytes == 32
sizeof_float == 4
align_floats == align_bytes \div sizeof_float

n_fields == 30
ffm_hash_bits == 1
ffm_hash_mask == 2 ^ ffm_hash_bits - 1
n_features == 2 ^ ffm_hash_bits

n_dim == 14
n_dim_aligned == ((n_dim - 1) \div align_floats + 1) * align_floats

index_stride == n_fields * n_dim_aligned * 2
field_stride == n_dim_aligned * 2

prefetch_depth == 1

\* ------------------------------------------------------------------------
\* Model state
\* ------------------------------------------------------------------------
\* The fields of ffm_model; restricted is the constructor's argument, kept to
\* name the mode; n_calls counts the calls made and last describes the latest.
VARIABLES restricted, eta, lambda, max_b_field, min_a_field,
          bias_w, bias_wg, weights, linear_weights,
          n_calls, last

vars == << restricted, eta, lambda, max_b_field, min_a_field,
           bias_w, bias_wg, weights, linear_weights, n_calls, last >>

\* ------------------------------------------------------------------------
\* Inputs. A feature is [index |-> (field << ffm_hash_bits) | hash, value].
\* A dropout mask is an array of 64-bit words; a word is modelled as the set
\* of its set bit positions.
\* ------------------------------------------------------------------------
Feature(field, hash, value) ==
    [index |-> field * (2 ^ ffm_hash_bits) + hash, value |-> value]

\* fa->index & ffm_hash_mask and fa->index >> ffm_hash_bits
IndexOf(f) == f.index % (ffm_hash_mask + 1)
FieldOf(f) == f.index \div (2 ^ ffm_hash_bits)

test_mask_bit(mask, i) ==
    IF (i % 64) \in mask[i \div 64] THEN 1 ELSE 0

\* ------------------------------------------------------------------------
\* Memory and __m256 values. A float array is a sequence: the cell at offset
\* k of the array is element k + 1. A __m256 is the tuple of its 8 lanes,
\* lane l of the register being element l + 1.
\* ------------------------------------------------------------------------
At(mem, k) == mem[k + 1]

Map1(Op(_), a) ==
    << Op(a[1]), Op(a[2]), Op(a[3]), Op(a[4]),
       Op(a[5]), Op(a[6]), Op(a[7]), Op(a[8]) >>
Map2(Op(_, _), a, b) ==
    << Op(a[1], b[1]), Op(a[2], b[2]), Op(a[3], b[3]), Op(a[4], b[4]),
       Op(a[5], b[5]), Op(a[6], b[6]), Op(a[7], b[7]), Op(a[8], b[8]) >>

mm256_set1_ps(x) == << x, x, x, x, x, x, x, x >>
mm256_load_ps(mem, addr) == SubSeq(mem, addr + 1, addr + 8)
mm256_store_ps(mem, addr, v) ==
    [mem EXCEPT ![addr + 1] = v[1], ![addr + 2] = v[2], ![addr + 3] = v[3],
                ![addr + 4] = v[4], ![addr + 5] = v[5], ![addr + 6] = v[6],
                ![addr + 7] = v[7], ![addr + 8] = v[8]]
mm256_add_ps(a, b) == Map2(FAdd, a, b)
mm256_sub_ps(a, b) == Map2(FSub, a, b)
mm256_mul_ps(a, b) == Map2(FMul, a, b)
mm256_rsqrt_ps(a) == Map1(FRsqrt, a)

\* _mm256_permute2f128_ps(val, val, 1): the two 128-bit halves swapped.
mm256_permute2f128_ps_1(val) ==
    << val[5], val[6], val[7], val[8], val[1], val[2], val[3], val[4] >>
\* _mm256_extractf128_ps(val, 0): the low half.
mm256_extractf128_ps_0(val) == << val[1], val[2], val[3], val[4] >>
\* _mm_hadd_ps on two 4-lane values
mm_hadd_ps(a, b) ==
    << FAdd(a[1], a[2]), FAdd(a[3], a[4]), FAdd(b[1], b[2]), FAdd(b[3], b[4]) >>

\* sum(__m256): add the swapped halves, take the low half, two horizontal
\* adds, store lane 0.
sum(val) ==
    LET s0 == mm256_extractf128_ps_0(
                  mm256_add_ps(val, mm256_permute2f128_ps_1(val)))
        s1 == mm_hadd_ps(s0, s0)
        s2 == mm_hadd_ps(s1, s1)
    IN  s2[1]

\* ------------------------------------------------------------------------
\* Construction
\* ------------------------------------------------------------------------
\* gen(rnd): the k-th draw of uniform_real_distribution(0, 1/sqrt(n_dim))
\* from the engine seeded with seed, as a deterministic function of both.
GenMax == ISqrt((Scale * Scale) \div n_dim)
Gen(seed, k) == (seed * 37 + k * 17 + (k \div 5) * 3) % (GenMax + 1)

\* The array of n cells whose cell k holds f[k].
ArrayOf(f, n) == SubSeq([j \in 1 .. n |-> f[j - 1]], 1, n)

init_weights(n, seed) ==
    ArrayOf([k \in 0 .. (n * 2 * n_dim_aligned - 1) |->
                LET blk == k \div (2 * n_dim_aligned)
                    d == k % (2 * n_dim_aligned)
                IN  IF d < n_dim THEN Gen(seed, blk * n_dim + d)
                    ELSE IF d < n_dim_aligned THEN 0
                    ELSE Scale],
            n * 2 * n_dim_aligned)

init_linear_weights(n) ==
    ArrayOf([k \in 0 .. (2 * n - 1) |-> IF k % 2 = 0 THEN 0 ELSE Scale], 2 * n)

\* Mutants of the constructor's bounds: the restricted max_b_field in both
\* modes; no min_a_field in either.
MaxBField_always19(is_restricted) == 19
MinAField_always0(is_restricted) == 0

MaxBField(is_restricted) == IF is_restricted THEN 19 ELSE n_fields
MinAField(is_restricted) == IF is_restricted THEN 10 ELSE 0

NoCall == [op |-> "none"]

ffm_model(seed, is_restricted, e, l) ==
    /\ restricted = is_restricted
    /\ eta = e
    /\ lambda = l
    /\ max_b_field = MaxBField(is_restricted)
    /\ min_a_field = MinAField(is_restricted)
    /\ bias_w = 0
    /\ bias_wg = Scale
    /\ weights = init_weights(n_features * n_fields, seed)
    /\ linear_weights = init_linear_weights(n_features)
    /\ n_calls = 0
    /\ last = NoCall

\* ------------------------------------------------------------------------
\* predict
\* ------------------------------------------------------------------------
\* The lane loop of lines 167-172: for (d = 0; d < n_dim; d += 8).
RECURSIVE predict_lanes(_, _, _, _, _)
predict_lanes(wa, wb, xmm_val, d, xmm_total) ==
    IF d < n_dim
    THEN LET xmm_wa == mm256_load_ps(weights, wa + d)
             xmm_wb == mm256_load_ps(weights, wb + d)
         IN  predict_lanes(wa, wb, xmm_val, d + 8,
                 mm256_add_ps(xmm_total,
                     mm256_mul_ps(mm256_mul_ps(xmm_wa, xmm_wb), xmm_val)))
    ELSE xmm_total

\* The tests of the loops: line 137, line 145, line 148 (left operand) and
\* line 156.
predict_not_outer(field_a) == field_a < min_a_field
predict_stop(field_b) == field_b > max_b_field
predict_look(fa, fb) == fb + prefetch_depth < fa
predict_dropped(mask, i) == test_mask_bit(mask, i) = 0

\* The inner loop of lines 140-173 from position fb on. r carries the pair
\* counter i, the accumulator xmm_total, and the record of what the scan did:
\* reads (mask bit indices tested), events (one per inner iteration) and
\* pairs (the iterations that reached the lane loop).
RECURSIVE predict_inner(_, _, _, _, _, _)
predict_inner(features, norm, mask, fa, fb, r) ==
    IF fb = fa THEN r
    ELSE
    LET a == features[fa]
        b == features[fb]
        index_a == IndexOf(a)
        field_a == FieldOf(a)
        index_b == IndexOf(b)
        field_b == FieldOf(b)
        i == r.i
    IN  IF predict_stop(field_b)
        THEN [r EXCEPT !.events = Append(@, [a |-> fa, b |-> fb, i |-> i,
                                              kind |-> "stop"])]
        ELSE
        LET look == predict_look(fa, fb)
            reads == r.reads \cup (IF look THEN {i + prefetch_depth} ELSE {})
                             \cup {i}
        IN  IF predict_dropped(mask, i)
            THEN predict_inner(features, norm, mask, fa, fb + 1,
                     [r EXCEPT !.i = i + 1, !.reads = reads,
                               !.events = Append(@, [a |-> fa, b |-> fb,
                                                     i |-> i, kind |-> "skip"])])
            ELSE
            LET wa == index_a * index_stride + field_b * field_stride
                wb == index_b * index_stride + field_a * field_stride
                xmm_val == mm256_set1_ps(FDiv(FMul(a.value, b.value), norm))
            IN  predict_inner(features, norm, mask, fa, fb + 1,
                     [r EXCEPT !.i = i + 1, !.reads = reads,
                               !.events = Append(@, [a |-> fa, b |-> fb,
                                                     i |-> i, kind |-> "pair"]),
                               !.pairs = Append(@, [a |-> fa, b |-> fb, i |-> i,
                                                    wa |-> wa, wb |-> wb]),
                               !.xmm_total = predict_lanes(wa, wb, xmm_val, 0, @)])

\* The outer loop of lines 130-174 from position fa on.
RECURSIVE predict_outer(_, _, _, _, _)
predict_outer(features, norm, mask, fa, r) ==
    IF fa > Len(features) THEN r
    ELSE
    LET a == features[fa]
        linear_norm == FOfInt(Len(features))
        r1 == [r EXCEPT !.linear_total =
                   FAdd(@, FDiv(FMul(a.value, At(linear_weights, IndexOf(a) * 2)),
                                linear_norm))]
    IN  IF predict_not_outer(FieldOf(a))
        THEN predict_outer(features, norm, mask, fa + 1, r1)
        ELSE predict_outer(features, norm, mask, fa + 1,
                 predict_inner(features, norm, mask, fa, 1, r1))

predict(features, norm, mask) ==
    LET r == predict_outer(features, norm, mask, 1,
                 [linear_total |-> 0, xmm_total |-> mm256_set1_ps(bias_w),
                  i |-> 0, reads |-> {}, events |-> << >>, pairs |-> << >>])
    IN  [score |-> FAdd(sum(r.xmm_total), r.linear_total),
         linear_total |-> r.linear_total, i |-> r.i, reads |-> r.reads,
         events |-> r.events, pairs |-> r.pairs]

\* ------------------------------------------------------------------------
\* update
\* ------------------------------------------------------------------------
\* The gradient of lines 241-242 for one block, from its own lanes and the
\* other block's.
update_grad(xmm_lambda, xmm_kappa_val, xmm_self, xmm_other) ==
    mm256_add_ps(mm256_mul_ps(xmm_lambda, xmm_self),
                 mm256_mul_ps(xmm_kappa_val, xmm_other))

\* The lane loop of lines 232-257 on the weight array W: all four loads of a
\* step precede its four stores, and the stores go in program order.
\* Mutant of the lane loop: block a is stepped first and block b's gradient
\* is taken from a's new lanes.
RECURSIVE update_lanes_sequential(_, _, _, _, _, _, _)
update_lanes_sequential(W, wa, wb, wga, wgb, xmm_kappa_val, d) ==
    IF d < n_dim
    THEN LET xmm_eta == mm256_set1_ps(eta)
             xmm_lambda == mm256_set1_ps(lambda)
             xmm_wa == mm256_load_ps(W, wa + d)
             xmm_wb == mm256_load_ps(W, wb + d)
             xmm_wga == mm256_load_ps(W, wga + d)
             xmm_ga == mm256_add_ps(mm256_mul_ps(xmm_lambda, xmm_wa),
                                    mm256_mul_ps(xmm_kappa_val, xmm_wb))
             new_wga == mm256_add_ps(xmm_wga, mm256_mul_ps(xmm_ga, xmm_ga))
             new_wa == mm256_sub_ps(xmm_wa, mm256_mul_ps(xmm_eta,
                           mm256_mul_ps(mm256_rsqrt_ps(new_wga), xmm_ga)))
             W1 == mm256_store_ps(mm256_store_ps(W, wa + d, new_wa),
                                  wga + d, new_wga)
             xmm_wb1 == mm256_load_ps(W1, wb + d)
             xmm_wgb == mm256_load_ps(W1, wgb + d)
             xmm_gb == mm256_add_ps(mm256_mul_ps(xmm_lambda, xmm_wb1),
                                    mm256_mul_ps(xmm_kappa_val, new_wa))
             new_wgb == mm256_add_ps(xmm_wgb, mm256_mul_ps(xmm_gb, xmm_gb))
             new_wb == mm256_sub_ps(xmm_wb1, mm256_mul_ps(xmm_eta,
                           mm256_mul_ps(mm256_rsqrt_ps(new_wgb), xmm_gb)))
             W2 == mm256_store_ps(mm256_store_ps(W1, wb + d, new_wb),
                                  wgb + d, new_wgb)
         IN  update_lanes_sequential(W2, wa, wb, wga, wgb, xmm_kappa_val, d + 8)
    ELSE W

RECURSIVE update_lanes(_, _, _, _, _, _, _)
update_lanes(W, wa, wb, wga, wgb, xmm_kappa_val, d) ==
    IF d < n_dim
    THEN LET xmm_eta == mm256_set1_ps(eta)
             xmm_lambda == mm256_set1_ps(lambda)
             xmm_wa == mm256_load_ps(W, wa + d)
             xmm_wb == mm256_load_ps(W, wb + d)
             xmm_wga == mm256_load_ps(W, wga + d)
             xmm_wgb == mm256_load_ps(W, wgb + d)
             xmm_ga == update_grad(xmm_lambda, xmm_kappa_val, xmm_wa, xmm_wb)
             xmm_gb == update_grad(xmm_lambda, xmm_kappa_val, xmm_wb, xmm_wa)
             new_wga == mm256_add_ps(xmm_wga, mm256_mul_ps(xmm_ga, xmm_ga))
             new_wgb == mm256_add_ps(xmm_wgb, mm256_mul_ps(xmm_gb, xmm_gb))
             new_wa == mm256_sub_ps(xmm_wa, mm256_mul_ps(xmm_eta,
                           mm256_mul_ps(mm256_rsqrt_ps(new_wga), xmm_ga)))
             new_wb == mm256_sub_ps(xmm_wb, mm256_mul_ps(xmm_eta,
                           mm256_mul_ps(mm256_rsqrt_ps(new_wgb), xmm_gb)))
             W1 == mm256_store_ps(W, wa + d, new_wa)
             W2 == mm256_store_ps(W1, wb + d, new_wb)
             W3 == mm256_store_ps(W2, wga + d, new_wga)
             W4 == mm256_store_ps(W3, wgb + d, new_wgb)
         IN  update_lanes(W4, wa, wb, wga, wgb, xmm_kappa_val, d + 8)
    ELSE W

\* The interaction block at offset w of the array W, as its 2*n_dim_aligned
\* scalars.
Block(W, w) == SubSeq(W, w + 1, w + field_stride)

\* The tests of the loops: line 199, line 207, line 210 (left operand) and
\* line 218.
\* Mutant of the stop test: the bound of unrestricted mode in both modes.
update_stop_unrestricted(field_b) == field_b > n_fields
\* Mutant of the dropout test: the lookahead bit instead of bit i.
update_dropped_lookahead(mask, i) == test_mask_bit(mask, i + prefetch_depth) = 0

update_not_outer(field_a) == field_a < min_a_field
update_stop(field_b) == field_b > max_b_field
update_look(fa, fb) == fb + prefetch_depth < fa
update_dropped(mask, i) == test_mask_bit(mask, i) = 0

\* The inner loop of lines 202-258 from position fb on.
RECURSIVE update_inner(_, _, _, _, _, _, _)
update_inner(features, norm, kappa, mask, fa, fb, r) ==
    IF fb = fa THEN r
    ELSE
    LET a == features[fa]
        b == features[fb]
        index_a == IndexOf(a)
        field_a == FieldOf(a)
        index_b == IndexOf(b)
        field_b == FieldOf(b)
        i == r.i
    IN  IF update_stop(field_b)
        THEN [r EXCEPT !.events = Append(@, [a |-> fa, b |-> fb, i |-> i,
                                              kind |-> "stop"])]
        ELSE
        LET look == update_look(fa, fb)
            reads == r.reads \cup (IF look THEN {i + prefetch_depth} ELSE {})
                             \cup {i}
        IN  IF update_dropped(mask, i)
            THEN update_inner(features, norm, kappa, mask, fa, fb + 1,
                     [r EXCEPT !.i = i + 1, !.reads = reads,
                               !.events = Append(@, [a |-> fa, b |-> fb,
                                                     i |-> i, kind |-> "skip"])])
            ELSE
            LET wa == index_a * index_stride + field_b * field_stride
                wb == index_b * index_stride + field_a * field_stride
                wga == wa + n_dim_aligned
                wgb == wb + n_dim_aligned
                kappa_val == FDiv(FMul(FMul(kappa, a.value), b.value), norm)
                W == update_lanes(r.weights, wa, wb, wga, wgb,
                                  mm256_set1_ps(kappa_val), 0)
            IN  update_inner(features, norm, kappa, mask, fa, fb + 1,
                     [r EXCEPT !.i = i + 1, !.reads = reads,
                               !.events = Append(@, [a |-> fa, b |-> fb,
                                                     i |-> i, kind |-> "pair"]),
                               !.pairs = Append(@, [a |-> fa, b |-> fb, i |-> i,
                                                    wa |-> wa, wb |-> wb]),
                               !.steps = Append(@,
                                   [wa |-> wa, wb |-> wb, kappa_val |-> kappa_val,
                                    pre_a |-> Block(r.weights, wa),
                                    pre_b |-> Block(r.weights, wb),
                                    post_a |-> Block(W, wa),
                                    post_b |-> Block(W, wb)]),
                               !.weights = W])

\* The linear step of lines 193-197 for the feature a on the table L.
update_linear(L, a, kappa, linear_norm) ==
    LET index_a == IndexOf(a)
        g == FAdd(FMul(lambda, At(L, index_a * 2)),
                  FDiv(FMul(kappa, a.value), linear_norm))
        wg == FAdd(At(L, index_a * 2 + 1), FMul(g, g))
    IN  [L EXCEPT ![index_a * 2 + 1] = FSub(@, FDiv(FMul(eta, g), FSqrt(wg))),
                  ![index_a * 2 + 2] = wg]

\* The outer loop of lines 188-259 from position fa on.
RECURSIVE update_outer(_, _, _, _, _, _)
update_outer(features, norm, kappa, mask, fa, r) ==
    IF fa > Len(features) THEN r
    ELSE
    LET a == features[fa]
        linear_norm == FOfInt(Len(features))
        L1 == update_linear(r.linear_weights, a, kappa, linear_norm)
        r1 == [r EXCEPT !.linear_weights = L1,
                   !.lsteps = Append(@,
                       [index |-> IndexOf(a), value |-> a.value,
                        pre_w |-> At(r.linear_weights, IndexOf(a) * 2),
                        pre_wg |-> At(r.linear_weights, IndexOf(a) * 2 + 1),
                        post_w |-> At(L1, IndexOf(a) * 2),
                        post_wg |-> At(L1, IndexOf(a) * 2 + 1)])]
    IN  IF update_not_outer(FieldOf(a))
        THEN update_outer(features, norm, kappa, mask, fa + 1, r1)
        ELSE update_outer(features, norm, kappa, mask, fa + 1,
                 update_inner(features, norm, kappa, mask, fa, 1, r1))

\* The bias step of lines 261-263.
update_bias_wg(kappa) == FAdd(bias_wg, kappa)
update_bias_w(kappa, new_wg) ==
    FSub(bias_w, FDiv(FMul(eta, kappa), FSqrt(new_wg)))

update(features, norm, kappa, mask) ==
    LET r == update_outer(features, norm, kappa, mask, 1,
                 [weights |-> weights, linear_weights |-> linear_weights,
                  i |-> 0, reads |-> {}, events |-> << >>, pairs |-> << >>,
                  steps |-> << >>, lsteps |-> << >>])
        new_wg == update_bias_wg(kappa)
    IN  [weights |-> r.weights, linear_weights |-> r.linear_weights,
         bias_wg |-> new_wg, bias_w |-> update_bias_w(kappa, new_wg),
         i |-> r.i, reads |-> r.reads, events |-> r.events,
         pairs |-> r.pairs, steps |-> r.steps, lsteps |-> r.lsteps]

\* ------------------------------------------------------------------------
\* Calls. last records the most recent call: its arguments and what its
\* loops did.
\* ------------------------------------------------------------------------
MaxCalls == 2
MaxLen == 3

Predict(features, norm, mask) ==
    /\ n_calls < MaxCalls
    /\ \E r \in {predict(features, norm, mask)} :
           last' = [op |-> "predict", features |-> features, norm |-> norm,
                    kappa |-> 0, mask |-> mask, score |-> r.score,
                    linear_total |-> r.linear_total, i |-> r.i,
                    reads |-> r.reads, events |-> r.events,
                    pairs |-> r.pairs, steps |-> << >>, lsteps |-> << >>]
    /\ n_calls' = n_calls + 1
    /\ UNCHANGED << restricted, eta, lambda, max_b_field, min_a_field,
                    bias_w, bias_wg, weights, linear_weights >>

Update(features, norm, kappa, mask) ==
    /\ n_calls < MaxCalls
    /\ \E r \in {update(features, norm, kappa, mask)} :
           /\ weights' = r.weights
           /\ linear_weights' = r.linear_weights
           /\ bias_wg' = r.bias_wg
           /\ bias_w' = r.bias_w
           /\ last' = [op |-> "update", features |-> features, norm |-> norm,
                       kappa |-> kappa, mask |-> mask, score |-> 0,
                       linear_total |-> 0, i |-> r.i,
                       reads |-> r.reads, events |-> r.events,
                       pairs |-> r.pairs, steps |-> r.steps,
                       lsteps |-> r.lsteps]
    /\ n_calls' = n_calls + 1
    /\ UNCHANGED << restricted, eta, lambda, max_b_field, min_a_field >>

\* The features the callers draw from: one of a field just below the
\* min_a_field of restricted mode, one of the field min_a_field, one of a
\* field just above the max_b_field of restricted mode; the first and the
\* last share a hashed id.
F_low == Feature(9, 0, Scale)
F_mid == Feature(10, 1, Scale)
F_high == Feature(20, 0, 2 * Scale)
FeatureSet == {F_low, F_mid, F_high}

SeqsOf(S, n) == UNION {[1 .. k -> S] : k \in 1 .. n}

\* A one-word mask with the given bits set.
MaskOf(bits) == [w \in {0} |-> bits]
ZeroMask == MaskOf({})
OnesMask == MaskOf(0 .. 63)

Seeds == {1}
Etas == {Scale \div 2}
Lambdas == {0, Scale \div 4}

Init ==
    \E seed \in Seeds, is_restricted \in BOOLEAN, e \in Etas, l \in Lambdas :
        ffm_model(seed, is_restricted, e, l)

\* A training run: up to MaxCalls calls on a few examples.
TrainExamples == {<< F_low, F_mid >>, << F_mid, F_mid, F_high >>}
TrainMasks == {ZeroMask, OnesMask}
Norms == {Scale}
Kappas == {0 - Scale, 0, Scale}

Next ==
    \E f \in TrainExamples, n \in Norms, m \in TrainMasks :
        \/ Predict(f, n, m)
        \/ \E k \in Kappas : Update(f, n, k, m)

Spec == Init /\ [][Next]_vars

\* A training run whose callers may also pass norm = 0.
ZeroNormExamples == {<< F_mid, F_mid, F_high >>}
ZeroNorms == {0, Scale}

NextZeroNorm ==
    \E f \in ZeroNormExamples, n \in ZeroNorms, m \in TrainMasks :
        \/ Predict(f, n, m)
        \/ \E k \in Kappas : Update(f, n, k, m)

SpecZeroNorm == Init /\ [][NextZeroNorm]_vars

\* One call over every example of up to MaxLen features on a regularized
\* model: freshly built, under every mask over the first three pair bits and
\* the all-ones mask; or after one update, under the all-zero and the
\* all-ones mask.
InitCall ==
    \E seed \in Seeds, is_restricted \in BOOLEAN, e \in Etas :
        ffm_model(seed, is_restricted, e, Scale \div 4)

CallMasks == {MaskOf(b) : b \in SUBSET (0 .. 2)} \cup {OnesMask}
CallNorms == {2 * Scale}
CallKappas == {Scale}
WarmExample == << F_low, F_mid, F_high >>

Warmed ==
    /\ last.op = "update" /\ n_calls = 1
    /\ last.features = WarmExample /\ last.mask = OnesMask
    /\ last.norm = Scale /\ last.kappa = Scale

\* The arguments a call may take in the current state: the warm-up update
\* or any call of CallMasks on a fresh model, any call of TrainMasks on the
\* warmed one.
CallAllowed(f, n, k, m) ==
    \/ /\ n_calls = 0
       /\ f = WarmExample /\ n = Scale /\ k = Scale /\ m = OnesMask
    \/ /\ n_calls = 0
       /\ n \in CallNorms /\ k \in CallKappas /\ m \in CallMasks
    \/ /\ Warmed
       /\ n \in CallNorms /\ k \in CallKappas /\ m \in TrainMasks

NextCall ==
    \E f \in SeqsOf(FeatureSet, MaxLen), n \in CallNorms \cup {Scale},
       k \in CallKappas, m \in CallMasks :
        \/ CallAllowed(f, n, k, m) /\ Predict(f, n, m)
        \/ CallAllowed(f, n, k, m) /\ Update(f, n, k, m)

SpecCall == InitCall /\ [][NextCall]_vars

\* ------------------------------------------------------------------------
\* Reference quantities, stated from the inputs and the model state
\* ------------------------------------------------------------------------
\* acc + F(k) + F(k+1) + ... + F(hi), added left to right.
RECURSIVE SumFrom(_, _, _, _)
SumFrom(F(_), k, hi, acc) ==
    IF k > hi THEN acc ELSE SumFrom(F, k + 1, hi, FAdd(acc, F(k)))

\* x >= y on floats: false when either is NaN.
FGe(x, y) == ~IsNaN(x) /\ ~IsNaN(y) /\ x >= y

\* sum over the features of value * linear_weight[feature_id] / |features|
LinearTerm(features) ==
    SumFrom(LAMBDA k : FDiv(FMul(features[k].value,
                                 At(linear_weights, IndexOf(features[k]) * 2)),
                            FOfInt(Len(features))),
            1, Len(features), 0)

\* block_offset(feature_id, field_id) of the weight tensor
BlockOffset(feature_id, field_id) ==
    feature_id * (n_fields * 2 * n_dim_aligned) + field_id * (2 * n_dim_aligned)

\* The pair of positions (a, b), b before a, is reached by the inner scan of
\* a: a may be an outer member and no earlier candidate of the scan exceeded
\* max_b_field.
Visited(features, a, b) ==
    /\ b < a
    /\ FieldOf(features[a]) >= min_a_field
    /\ \A c \in 1 .. (b - 1) : FieldOf(features[c]) <= max_b_field

\* The pair is field-eligible: reached, and b itself within max_b_field.
Eligible(features, a, b) ==
    Visited(features, a, b) /\ FieldOf(features[b]) <= max_b_field

Positions(features) == (1 .. Len(features)) \X (1 .. Len(features))

Before(p, q) == p[1] < q[1] \/ (p[1] = q[1] /\ p[2] < q[2])

\* The number of field-eligible pairs enumerated before (a, b).
PairIndex(features, a, b) ==
    Cardinality({p \in Positions(features) :
                    Eligible(features, p[1], p[2]) /\ Before(p, << a, b >>)})

\* ------------------------------------------------------------------------
\* Claims checked on a training run (Spec)
\* ------------------------------------------------------------------------
\* C1: predict under a mask whose bits are all 0 returns exactly
\* bias_w + sum over the features of value * linear_weight[feature_id] /
\* |features|: the bias is added once and no interaction term is added.
C1_ZeroMaskScore ==
    (last.op = "predict" /\ last.mask = ZeroMask) =>
        last.score = FAdd(bias_w, LinearTerm(last.features))

\* The accumulators of the interaction blocks, the linear table and the bias.
WeightAccs == {k \in 0 .. (Len(weights) - 1) : k % field_stride >= n_dim_aligned}
LinearAccs == {k \in 0 .. (Len(linear_weights) - 1) : k % 2 = 1}

\* C9: every AdaGrad accumulator (interaction lanes, linear table, bias_wg)
\* is >= 1.0 and no update decreases it, for any finite kappa.
C9_AccumulatorsGrow ==
    [][/\ FGe(bias_wg', Scale) /\ FGe(bias_wg', bias_wg)
       /\ \A k \in LinearAccs :
              /\ FGe(At(linear_weights', k), Scale)
              /\ FGe(At(linear_weights', k), At(linear_weights, k))
       /\ \A k \in WeightAccs :
              /\ FGe(At(weights', k), Scale)
              /\ FGe(At(weights', k), At(weights, k))]_vars

\* The regularization-only step of a weight w with accumulator g.
ShrinkAcc(w, g) == FAdd(g, FMul(FMul(lambda, w), FMul(lambda, w)))
\* ... of an interaction weight (the code's reciprocal square root)
ShrinkWeight(w, g) ==
    FSub(w, FMul(eta, FMul(FRsqrt(ShrinkAcc(w, g)), FMul(lambda, w))))
\* ... of a linear weight
ShrinkLinear(w, g) ==
    FSub(w, FDiv(FMul(eta, FMul(lambda, w)), FSqrt(ShrinkAcc(w, g))))

\* The block post is the block pre after one regularization-only step of
\* every lane.
ShrunkBlock(pre, post) ==
    \A d \in 1 .. n_dim_aligned :
        /\ post[d] = ShrinkWeight(pre[d], pre[d + n_dim_aligned])
        /\ post[d + n_dim_aligned] = ShrinkAcc(pre[d], pre[d + n_dim_aligned])

\* C5: update with kappa = 0 leaves the whole model state unchanged when
\* lambda = 0; when lambda # 0 every touch of a weight w moves it to
\* w - eta * lambda * w / sqrt(g_acc + (lambda * w)^2) and its accumulator
\* to g_acc + (lambda * w)^2.
C5_ZeroKappa ==
    [][(last'.op = "update" /\ last'.kappa = 0) =>
          /\ lambda = 0 =>
                /\ weights' = weights
                /\ linear_weights' = linear_weights
                /\ bias_w' = bias_w
                /\ bias_wg' = bias_wg
          /\ lambda # 0 =>
                /\ \A k \in 1 .. Len(last'.steps) :
                       /\ ShrunkBlock(last'.steps[k].pre_a, last'.steps[k].post_a)
                       /\ ShrunkBlock(last'.steps[k].pre_b, last'.steps[k].post_b)
                /\ \A k \in 1 .. Len(last'.lsteps) :
                       LET s == last'.lsteps[k]
                       IN  /\ s.post_w = ShrinkLinear(s.pre_w, s.pre_wg)
                           /\ s.post_wg = ShrinkAcc(s.pre_w, s.pre_wg)]_vars

\* ------------------------------------------------------------------------
\* Claims checked on single calls (SpecCall)
\* ------------------------------------------------------------------------
\* What the loop of the latest call should have done at each inner
\* iteration, from the inputs alone.
KindOf(features, mask, a, b) ==
    IF FieldOf(features[b]) > max_b_field THEN "stop"
    ELSE IF test_mask_bit(mask, PairIndex(features, a, b)) = 0 THEN "skip"
    ELSE "pair"

VisitedSet(features) ==
    {p \in Positions(features) : Visited(features, p[1], p[2])}

\* The k-th inner iteration in enumeration order.
NthVisited(features, k) ==
    CHOOSE p \in VisitedSet(features) :
        Cardinality({q \in VisitedSet(features) : Before(q, p)}) = k - 1

ExpectedEvents(features, mask) ==
    [k \in 1 .. Cardinality(VisitedSet(features)) |->
        LET p == NthVisited(features, k)
        IN  [a |-> p[1], b |-> p[2], i |-> PairIndex(features, p[1], p[2]),
             kind |-> KindOf(features, mask, p[1], p[2])]]

EligibleSet(features) ==
    {p \in Positions(features) : Eligible(features, p[1], p[2])}

\* The pairs that are field-eligible and whose mask bit is 1, with their
\* counter value and the offsets of their two blocks.
GatedPairs(features, mask) ==
    {[a |-> p[1], b |-> p[2], i |-> PairIndex(features, p[1], p[2]),
      wa |-> BlockOffset(IndexOf(features[p[1]]), FieldOf(features[p[2]])),
      wb |-> BlockOffset(IndexOf(features[p[2]]), FieldOf(features[p[1]]))] :
        p \in {q \in EligibleSet(features) :
                  test_mask_bit(mask, PairIndex(features, q[1], q[2])) = 1}}

Range(s) == {s[k] : k \in 1 .. Len(s)}

\* C2: on the same state, features and mask, predict and update visit the
\* same pairs in the same order with the same counter values, stop each
\* inner scan at the same position, read the same mask bits, and gate the
\* same pairs: a pair contributes to the score iff update writes its two
\* blocks iff it is field-eligible and its mask bit is 1.
C2_Lockstep ==
    last.op # "none" =>
        \E p \in {predict(last.features, last.norm, last.mask)} :
        \E u \in {update(last.features, last.norm, last.kappa, last.mask)} :
            /\ p.events = u.events
            /\ p.i = u.i
            /\ p.reads = u.reads
            /\ p.pairs = u.pairs
            /\ Len(u.steps) = Len(u.pairs)
            /\ \A k \in 1 .. Len(u.steps) :
                   u.steps[k].wa = u.pairs[k].wa /\ u.steps[k].wb = u.pairs[k].wb
            /\ Range(p.pairs) = GatedPairs(last.features, last.mask)
            /\ Len(p.pairs) = Cardinality(GatedPairs(last.features, last.mask))
            /\ last.events = p.events

C2_Witness ==
    /\ last.op = "update"
    /\ \E j, k, l \in 1 .. Len(last.events) :
           /\ last.events[j].kind = "stop"
           /\ last.events[k].kind = "skip"
           /\ last.events[l].kind = "pair"
    /\ Len(last.steps) >= 1

\* C7: the pair counter starts at 0 and goes up by one after every inner
\* iteration that is not the early exit, skipped pairs included; the
\* iteration whose b exceeds max_b_field leaves it alone and ends the scan
\* of that a; an a of a field below min_a_field has no inner iteration.
C7_PairCounter ==
    last.op # "none" =>
        LET ev == last.events
        IN  /\ ev = ExpectedEvents(last.features, last.mask)
            /\ Len(ev) >= 1 => ev[1].i = 0
            /\ \A k \in 1 .. (Len(ev) - 1) :
                   ev[k + 1].i = ev[k].i + (IF ev[k].kind = "stop" THEN 0 ELSE 1)
            /\ last.i = Cardinality({k \in 1 .. Len(ev) : ev[k].kind # "stop"})
            /\ \A k \in 1 .. Len(ev) :
                   /\ FieldOf(last.features[ev[k].a]) >= min_a_field
                   /\ ev[k].kind = "stop" =>
                          \A j \in (k + 1) .. Len(ev) : ev[j].a > ev[k].a

C7_Witness ==
    /\ last.op = "predict"
    /\ \E k \in 1 .. (Len(last.events) - 1) :
           /\ last.events[k].kind = "skip"
           /\ last.events[k + 1].kind = "stop"
           /\ last.events[k + 1].a = last.events[k].a
           /\ last.i = last.events[k].i + 1
           /\ last.i >= 2

\* C10: every mask bit index read during a call, the gating read of bit i
\* and the lookahead read of bit i + prefetch_depth, is below the number of
\* pairs counted in the call.
C10_MaskReadsInRange ==
    last.op # "none" => \A k \in last.reads : k < last.i

\* The mask has a 1 for every pair of n features.
AllOnes(mask, n) ==
    \A i \in 0 .. ((n * (n - 1)) \div 2 - 1) : test_mask_bit(mask, i) = 1

\* value_a * value_b / norm times the product of lane d of the blocks
\* (feature_a, field_b) and (feature_b, field_a), as predict rounds it.
PairLaneTerm(features, norm, a, b, d) ==
    FMul(FMul(At(weights, BlockOffset(IndexOf(features[a]),
                                      FieldOf(features[b])) + d),
              At(weights, BlockOffset(IndexOf(features[b]),
                                      FieldOf(features[a])) + d)),
         FDiv(FMul(features[a].value, features[b].value), norm))

\* The sum over every pair of positions b < a of the first n_dim lane terms.
AllPairsTerm(features, norm) ==
    SumFrom(LAMBDA a :
                SumFrom(LAMBDA b :
                            SumFrom(LAMBDA d :
                                        PairLaneTerm(features, norm, a, b, d),
                                    0, n_dim - 1, 0),
                        1, a - 1, 0),
            1, Len(features), 0)

\* C3: unrestricted, every field below n_fields, all-ones mask: the
\* interaction term of predict is the sum over every pair of positions
\* b < a, each of the n(n-1)/2 pairs once, of value_a * value_b / norm times
\* the dot product of blocks (feature_a, field_b) and (feature_b, field_a).
C3_AllPairs ==
    (/\ last.op = "predict"
     /\ ~restricted
     /\ AllOnes(last.mask, Len(last.features))) =>
        LET n == Len(last.features)
        IN  /\ Len(last.pairs) = (n * (n - 1)) \div 2
            /\ {<< q.a, q.b >> : q \in Range(last.pairs)}
                   = {p \in Positions(last.features) : p[2] < p[1]}
            /\ \A q \in Range(last.pairs) :
                   /\ q.wa = BlockOffset(IndexOf(last.features[q.a]),
                                         FieldOf(last.features[q.b]))
                   /\ q.wb = BlockOffset(IndexOf(last.features[q.b]),
                                         FieldOf(last.features[q.a]))
            /\ last.score =
                   FAdd(FAdd(sum(mm256_set1_ps(bias_w)),
                             AllPairsTerm(last.features, last.norm)),
                        last.linear_total)

C3_Witness ==
    /\ last.op = "predict"
    /\ ~restricted
    /\ Len(last.features) = 3
    /\ AllOnes(last.mask, 3)
    /\ Len(last.pairs) = 3
    /\ \E k \in 1 .. 3 : FieldOf(last.features[k]) > 19
    /\ last.score > 0

\* The linear table after the linear step of every feature of the example,
\* in order.
RECURSIVE LinearSteps(_, _, _, _)
LinearSteps(L, features, kappa, k) ==
    IF k > Len(features) THEN L
    ELSE LinearSteps(update_linear(L, features[k], kappa,
                                   FOfInt(Len(features))),
                     features, kappa, k + 1)

AllBelowMinA(features) ==
    \A k \in 1 .. Len(features) : FieldOf(features[k]) < 10

\* C6: restricted mode, every field below min_a_field: predict adds no
\* interaction term whatever the mask holds, reads no mask bit and leaves
\* the pair counter at 0; update writes no interaction block; the linear
\* term and the linear steps still cover every feature.
C6_RestrictedLowFields ==
    [][(restricted /\ last'.op # "none" /\ n_calls' # n_calls
          /\ AllBelowMinA(last'.features)) =>
          /\ last'.i = 0
          /\ last'.reads = {}
          /\ last'.events = << >>
          /\ weights' = weights
          /\ last'.op = "predict" =>
                /\ last'.score = FAdd(sum(mm256_set1_ps(bias_w)),
                                      LinearTerm(last'.features))
                /\ linear_weights' = linear_weights
          /\ last'.op = "update" =>
                /\ linear_weights' =
                       LinearSteps(linear_weights, last'.features,
                                   last'.kappa, 1)
                /\ Len(last'.lsteps) = Len(last'.features)]_vars

C6_Witness ==
    /\ restricted
    /\ last.op = "update"
    /\ Len(last.features) = 3
    /\ AllBelowMinA(last.features)
    /\ AllOnes(last.mask, 3)
    /\ last.i = 0
    /\ linear_weights # init_linear_weights(n_features)

\* The block post_self is the block pre_self after one AdaGrad step whose
\* gradient is taken from pre_self and pre_other, lane by lane.
SteppedBlock(pre_self, pre_other, post_self, kappa_val) ==
    \A d \in 1 .. n_dim_aligned :
        LET grad == FAdd(FMul(lambda, pre_self[d]),
                         FMul(kappa_val, pre_other[d]))
            g_acc == FAdd(pre_self[d + n_dim_aligned], FMul(grad, grad))
        IN  /\ post_self[d + n_dim_aligned] = g_acc
            /\ post_self[d] =
                   FSub(pre_self[d], FMul(eta, FMul(FRsqrt(g_acc), grad)))

\* C8: for every pair update processes, each block's gradient is
\* lambda * w_self + kappa * value_a * value_b / norm * w_other with both
\* weights as they were before either block was written for the pair, then
\* g_acc += grad^2 and w_self -= eta * grad / sqrt(new g_acc), lane by lane,
\* also when the two blocks are the same block.
C8_PreUpdateValues ==
    last.op = "update" =>
        \A k \in 1 .. Len(last.steps) :
            LET s == last.steps[k]
                a == last.features[last.pairs[k].a]
                b == last.features[last.pairs[k].b]
            IN  /\ s.kappa_val =
                       FDiv(FMul(FMul(last.kappa, a.value), b.value), last.norm)
                /\ SteppedBlock(s.pre_a, s.pre_b, s.post_a, s.kappa_val)
                /\ SteppedBlock(s.pre_b, s.pre_a, s.post_b, s.kappa_val)

C8_Witness ==
    /\ last.op = "update"
    /\ \E j, k \in 1 .. Len(last.steps) :
           /\ last.steps[j].wa = last.steps[j].wb
           /\ last.steps[j].post_a # last.steps[j].pre_a
           /\ last.steps[k].wa # last.steps[k].wb
           /\ last.steps[k].post_a # last.steps[k].pre_a
           /\ last.steps[k].post_b # last.steps[k].pre_b

\* ------------------------------------------------------------------------
\* Claim checked on training runs whose norm may be 0 (SpecZeroNorm)
\* ------------------------------------------------------------------------
\* Of every interaction block, the padding lanes [n_dim, n_dim_aligned) of
\* the weight half hold 0 and those of the accumulator half hold 1.0.
PaddingIntact(W) ==
    \A blk \in 0 .. (n_features * n_fields - 1) :
        \A d \in n_dim .. (n_dim_aligned - 1) :
            /\ At(W, blk * field_stride + d) = 0
            /\ At(W, blk * field_stride + n_dim_aligned + d) = Scale

\* C4: in every state reachable by update calls with any features, mask,
\* finite norm and kappa, the padding lanes hold 0 (and the accumulator
\* padding 1.0).
C4_PaddingZero == PaddingIntact(weights)

====
